---- MODULE Spec2Model ----
(***************************************************************************)
(* Photopea playground: the session store (lib/session.ts and the          *)
(* /api/sessions routes) and the client page (app/page.tsx).               *)
(*                                                                         *)
(* SpecStore    the four store operations, one request at a time           *)
(* SpecRace     two POST requests served concurrently, writeFile step by   *)
(*              step                                                       *)
(* Spec         the page and the server: user actions, message events, the *)
(*              debounced save, requests and responses in flight           *)
(* SpecConcurrent  the same with one more request in flight and shorter    *)
(*              logs                                                       *)
(* SpecClassify the page receiving message events of every payload shape   *)
(* SpecPreview  messages with previews, clear and new session              *)
(* SpecClock    a session stored by another client; the clock moves        *)
(* SpecFailure  a store that cannot be written, a network that may fail    *)
(* SpecSwitch   two stored sessions, switches, saves while a load is in    *)
(*              flight                                                     *)
(* SpecDelete   deletions, with saves in flight                            *)
(***************************************************************************)
EXTENDS Integers, Sequences, FiniteSets, TLC

VARIABLES
    dir,        \* the .sessions path: "absent", "present" or "notdir"
    files,      \* per session id: the entry <id>.json of the directory
    resp,       \* the last request served and its response
    lastPut,    \* per session id: the record of the last successful put
                \* not followed by a put or delete of that id (history)
    writers,    \* SpecRace: per POST request being served, its record and its place
    completed,  \* SpecRace: the requests answered, in the order of their answers
    sessionId,      \* page state: the current session id
    messages,       \* page state: the message log
    messageIdRef,   \* messageIdRef.current
    imageUrls,      \* page state
    photopeaSrc,    \* page state
    sessions,       \* page state: the ids of the session list shown
    localStorage,   \* currentSessionId and the session_<id>_created keys
    saveTimeout,    \* whether the debounce timer is armed
    net,            \* the requests and responses in flight
    now,            \* the clock (Date)
    thrown,         \* whether an exception has left an event handler uncaught
    objectUrls,     \* the number of object URLs created and not revoked
    consoleError    \* whether console.error has been called

storeVars == <<dir, files>>
obsVars == <<resp, lastPut>>
raceVars == <<writers, completed>>
clientVars == <<sessionId, messages, messageIdRef, imageUrls, photopeaSrc, sessions,
                localStorage, saveTimeout, net, now, thrown, objectUrls, consoleError>>
vars == <<dir, files, resp, lastPut, writers, completed, sessionId, messages, messageIdRef,
          imageUrls, photopeaSrc, sessions, localStorage, saveTimeout, net, now, thrown,
          objectUrls, consoleError>>

(***************************************************************************)
(* Bounds of the model.                                                    *)
(***************************************************************************)
MaxTime == 2
MaxLog == 2

Ids == {"s1", "s2", "s3"}
Times == 1..MaxTime

(***************************************************************************)
(* Display texts.  A JavaScript string the page builds is kept as the      *)
(* template it was built from and the values filled in: fmt names the      *)
(* template, s and n its string and number, hex the two-or-more-digit      *)
(* groups of the preview and dots whether "..." was appended.              *)
(***************************************************************************)
Txt(fmt, s, n, hex, dots) == [fmt |-> fmt, s |-> s, n |-> n, hex |-> hex, dots |-> dots]

\* A literal string, or String(value).
Text(s) == Txt("text", s, 0, <<>>, FALSE)

Min(a, b) == IF a < b THEN a ELSE b

\* b.toString(16): the hexadecimal digits of b, most significant first.
RECURSIVE Digits(_)
Digits(b) == IF b < 16 THEN <<b>> ELSE Digits(b \div 16) \o <<b % 16>>

\* b.toString(16).padStart(2, '0')
Hex2(b) == IF Len(Digits(b)) < 2 THEN <<0>> \o Digits(b) ELSE Digits(b)

\* A preview that takes every element, with no slice.
HexPreviewUnsliced(elems, limit) == [k \in 1..Len(elems) |-> Hex2(elems[k])]

\* Array.from(arr.slice(0, limit)).map(hex).join(' ')
HexPreview(elems, limit) == [k \in 1..Min(Len(elems), limit) |-> Hex2(elems[k])]

ContentPreviewBytes == 20
RawPreviewBytes == 50

(***************************************************************************)
(* Payloads of a message event (e.data), by runtime shape.                 *)
(***************************************************************************)
Payload(k, ctor, text, elems, mime) ==
    [k |-> k, ctor |-> ctor, text |-> text, elems |-> elems, mime |-> mime]

\* typeof data === "string"
StrP(t) == Payload("string", "String", t, <<>>, "")

\* An ArrayBuffer (ctor = "ArrayBuffer") or a typed array of n elements.
ByteAt(k) == (k * 37) % 256
WordAt(k) == (k * 4099) % 65536

BufP(ctor, n) ==
    Payload(IF ctor = "ArrayBuffer" THEN "ArrayBuffer" ELSE "TypedArray", ctor, "",
            [k \in 1..n |-> IF ctor = "Uint16Array" THEN WordAt(k) ELSE ByteAt(k)], "")

\* A DataView: ArrayBuffer.isView holds of it, and it has neither length nor slice.
DataViewP == Payload("DataView", "DataView", "", <<>>, "")

\* A Blob of n bytes with declared type mime ("" when none).
BlobP(n, mime) == Payload("Blob", "Blob", "", [k \in 1..n |-> ByteAt(k)], mime)

\* A non-null object: text names its JSON text; JSON.stringify throws on a
\* cyclic object (k = "cyclic"), which postMessage does deliver.
ObjP(json) == Payload("object", "Object", json, <<>>, "")
CyclicP == Payload("cyclic", "Object", "", <<>>, "")

\* number, boolean, bigint, null, undefined: text is String(data).
PrimP(k, lit) == Payload(k, "", lit, <<>>, "")

Sizes == {0, 1, ContentPreviewBytes, ContentPreviewBytes + 1,
          RawPreviewBytes, RawPreviewBytes + 1}

Payloads ==
    {StrP(t) : t \in {"done", "hello", ""}}
    \cup {BufP(c, n) : c \in {"ArrayBuffer", "Uint8Array"}, n \in Sizes}
    \cup {BufP("Uint16Array", n) : n \in {0, 1, ContentPreviewBytes + 1}}
    \cup {DataViewP, CyclicP, ObjP("{\"a\": 1}"), ObjP("[]")}
    \cup {BlobP(n, m) : n \in {0, 1}, m \in {"", "image/png"}}
    \cup {PrimP("number", "42"), PrimP("boolean", "true"), PrimP("bigint", "7"),
          PrimP("null", "null"), PrimP("undefined", "undefined")}

\* typeof data
TypeOf(p) ==
    CASE p.k \in {"string", "number", "boolean", "bigint", "undefined"} -> p.k
      [] OTHER -> "object"

\* String(data)
StringOf(p) ==
    CASE p.k \in {"string", "number", "boolean", "bigint", "null", "undefined"} -> Text(p.text)
      [] p.k = "ArrayBuffer" -> Text("[object ArrayBuffer]")
      [] p.k = "DataView" -> Text("[object DataView]")
      [] p.k = "Blob" -> Text("[object Blob]")
      [] p.k = "TypedArray" -> Txt("join", ",", Len(p.elems), <<>>, FALSE)
      [] OTHER -> Text("[object Object]")

\* ArrayBuffer.isView(data)
IsView(p) == p.k \in {"TypedArray", "DataView"}

\* arr.slice is a function
HasSlice(p) == p.k \in {"TypedArray", "ArrayBuffer", "Blob"}

(***************************************************************************)
(* handleMessage, the raw string (inside try/catch).                       *)
(***************************************************************************)
RawStringOf(p) ==
    IF p.k = "ArrayBuffer"
    THEN Txt("[ctor(n)] hex", "ArrayBuffer", Len(p.elems),
             HexPreview(p.elems, RawPreviewBytes), Len(p.elems) > RawPreviewBytes)
    ELSE IF p.ctor = "Uint8Array" \/ IsView(p)
    THEN IF HasSlice(p)
         THEN Txt("[ctor(n)] hex", p.ctor, Len(p.elems),
                  HexPreview(p.elems, RawPreviewBytes), Len(p.elems) > RawPreviewBytes)
         ELSE StringOf(p)
    ELSE IF p.k = "Blob"
    THEN Txt("[Blob(n, s)]", IF p.mime = "" THEN "unknown" ELSE p.mime,
             Len(p.elems), <<>>, FALSE)
    ELSE IF TypeOf(p) = "object" /\ p.k # "null"
    THEN IF p.k = "cyclic" THEN StringOf(p) ELSE Txt("json", p.text, 0, <<>>, FALSE)
    ELSE StringOf(p)

(***************************************************************************)
(* handleMessage, content and dataType (first match wins; no try/catch     *)
(* around the chain).  threw: a TypeError leaves the handler.              *)
(***************************************************************************)
Classified(content, dataType, preview) ==
    [threw |-> FALSE, content |-> content, dataType |-> dataType, preview |-> preview]

Thrown == [threw |-> TRUE, content |-> Text(""), dataType |-> "", preview |-> FALSE]

HexContent(p) ==
    Txt("ctor (n bytes) Hex: hex", p.ctor, Len(p.elems),
        HexPreview(p.elems, ContentPreviewBytes), Len(p.elems) > ContentPreviewBytes)

ContentOf(p) ==
    IF p.k = "string" /\ p.text = "done"
    THEN Classified(Text("(check) done"), "done", FALSE)
    ELSE IF TypeOf(p) = "string"
    THEN Classified(Text(p.text), "string", FALSE)
    ELSE IF p.k = "ArrayBuffer"
    THEN Classified(HexContent(p), "ArrayBuffer", TRUE)
    ELSE IF p.ctor = "Uint8Array"
    THEN Classified(HexContent(p), "Uint8Array", TRUE)
    ELSE IF p.k = "Blob"
    THEN Classified(Txt("Blob (n bytes, type: s)",
                        IF p.mime = "" THEN "unknown" ELSE p.mime,
                        Len(p.elems), <<>>, FALSE), "Blob", TRUE)
    ELSE IF IsView(p)
    THEN IF HasSlice(p) THEN Classified(HexContent(p), p.ctor, TRUE) ELSE Thrown
    ELSE IF TypeOf(p) = "object" /\ p.k # "null"
    THEN IF p.k = "cyclic"
         THEN Classified(StringOf(p), "unknown", FALSE)
         ELSE Classified(Txt("json", p.text, 0, <<>>, FALSE), "object", FALSE)
    ELSE IF TypeOf(p) = "number"
    THEN Classified(StringOf(p), "number", FALSE)
    ELSE IF TypeOf(p) = "boolean"
    THEN Classified(StringOf(p), "boolean", FALSE)
    ELSE Classified(StringOf(p), TypeOf(p), FALSE)

(***************************************************************************)
(* The origin of a message event, in pieces: the string is their           *)
(* concatenation, and s.includes(t) is t occurring as consecutive pieces.  *)
(***************************************************************************)
EditorOrigin == <<"https://www.", "photopea.com">>

Origins ==
    {EditorOrigin,
     <<"https://", "photopea.com", ".evil.example">>,
     <<"https://not", "photopea.com">>,
     <<"https://evil.example">>}

Includes(str, pat) ==
    \E k \in 1..(Len(str) - Len(pat) + 1) : SubSeq(str, k, k + Len(pat) - 1) = pat

\* !e.origin.includes("photopea.com") returns early
OriginAccepted(origin) == Includes(origin, <<"photopea.com">>)

(***************************************************************************)
(* Session records (lib/session.ts, interface Session).                    *)
(***************************************************************************)
NoMeta == [has |-> FALSE, imageUrls |-> <<>>, photopeaSrc |-> ""]

Meta(urls, src) == [has |-> TRUE, imageUrls |-> urls, photopeaSrc |-> src]

StoredMsg(i) ==
    [id |-> i,
     type |-> IF i % 2 = 1 THEN "sent" ELSE "received",
     content |-> IF i % 2 = 1 THEN Text("x") ELSE Text("(check) done"),
     rawString |-> IF i % 2 = 1 THEN Text("x") ELSE Text("done"),
     dataType |-> IF i % 2 = 1 THEN "script" ELSE "done"]

Session(i, c, u, ms, md) ==
    [id |-> i, createdAt |-> c, updatedAt |-> u, messages |-> ms, metadata |-> md]

NullSession == Session("", 0, 0, <<>>, NoMeta)

\* The records the store is asked to put.  s1 takes every log length and
\* every pair of timestamps with updatedAt >= createdAt, with and without
\* metadata; s2 and s3 take fewer, enough to list three sessions.
MetaOf(n) == IF n % 2 = 1 THEN Meta(<<"u1">>, "https://www.photopea.com") ELSE NoMeta

Log(n) == [k \in 1..n |-> StoredMsg(k)]

RecordsOf(i, lens) ==
    {Session(i, t[1], t[2], Log(n), MetaOf(n)) :
        t \in {p \in Times \X Times : p[1] <= p[2]}, n \in lens}

Records ==
    RecordsOf("s1", 0..MaxLog) \cup RecordsOf("s2", {1})
        \cup {Session("s3", t, t, <<>>, NoMeta) : t \in Times}

(***************************************************************************)
(* JSON text, as a sequence of tokens.  JSON.stringify writes the keys in  *)
(* order and leaves out a key whose value is undefined; JSON.parse throws  *)
(* on a text that is no complete document.                                 *)
(***************************************************************************)
Tok(t, v) == [t |-> t, v |-> v]

Stringify(s) ==
    <<Tok("{", 0), Tok("id", s.id), Tok("createdAt", s.createdAt),
      Tok("updatedAt", s.updatedAt), Tok("[", 0)>>
    \o [k \in 1..Len(s.messages) |-> Tok("msg", s.messages[k])]
    \o <<Tok("]", 0)>>
    \o (IF s.metadata.has THEN <<Tok("metadata", s.metadata)>> ELSE <<>>)
    \o <<Tok("}", 0)>>

\* Whether JSON.parse accepts the text (it throws a SyntaxError otherwise).
Parses(d) ==
    LET n == Len(d)
        m == IF n >= 8 /\ d[n - 1].t = "metadata" THEN n - 2 ELSE n - 1
    IN  /\ n >= 7
        /\ d[1].t = "{" /\ d[2].t = "id" /\ d[3].t = "createdAt"
        /\ d[4].t = "updatedAt" /\ d[5].t = "["
        /\ d[n].t = "}"
        /\ m >= 6 /\ d[m].t = "]"
        /\ \A k \in 6..(m - 1) : d[k].t = "msg"

\* The value JSON.parse returns for a text it accepts.
Parse(d) ==
    LET n == Len(d)
        m == IF d[n - 1].t = "metadata" THEN n - 2 ELSE n - 1
    IN  Session(d[2].v, d[3].v, d[4].v,
                [k \in 1..(m - 6) |-> d[k + 5].v],
                IF d[n - 1].t = "metadata" THEN d[n - 1].v ELSE NoMeta)

\* A file cut short: no JSON document.
Malformed == <<Tok("{", 0), Tok("id", "s1")>>

(***************************************************************************)
(* The file system under SESSIONS_DIR.                                     *)
(***************************************************************************)
NoFile == [exists |-> FALSE, access |-> FALSE, data |-> <<>>]

File(d) == [exists |-> TRUE, access |-> TRUE, data |-> d]

\* An entry the process may neither read nor write (mode 000).
Locked == [exists |-> TRUE, access |-> FALSE, data |-> <<>>]

Store(d, f) == [dir |-> d, files |-> f]

\* fs.mkdir(SESSIONS_DIR, {recursive: true}): fails when the path is no directory.
FsMkdir(st) ==
    IF st.dir = "notdir"
    THEN [ok |-> FALSE, st |-> st]
    ELSE [ok |-> TRUE, st |-> Store("present", st.files)]

\* open(path, 'w'): creates or truncates the file.
FsOpenTrunc(st, id) ==
    IF st.dir # "present" \/ (st.files[id].exists /\ ~st.files[id].access)
    THEN [ok |-> FALSE, st |-> st]
    ELSE [ok |-> TRUE, st |-> Store(st.dir, [st.files EXCEPT ![id] = File(<<>>)])]

\* write(fd, data) on a descriptor opened at offset 0: the bytes of the file
\* beyond the data written stay as they are.
Overlay(old, data) ==
    IF Len(old) > Len(data)
    THEN data \o SubSeq(old, Len(data) + 1, Len(old))
    ELSE data

FsWriteAt0(st, id, data) ==
    Store(st.dir, [st.files EXCEPT ![id] = File(Overlay(st.files[id].data, data))])

\* fs.writeFile(path, data): open, write, close.
FsWriteFile(st, id, data) ==
    LET o == FsOpenTrunc(st, id)
    IN  IF o.ok THEN [ok |-> TRUE, st |-> FsWriteAt0(o.st, id, data)] ELSE o

FsReadFile(st, id) ==
    IF st.dir = "present" /\ st.files[id].exists /\ st.files[id].access
    THEN [ok |-> TRUE, data |-> st.files[id].data]
    ELSE [ok |-> FALSE, data |-> <<>>]

FsReaddirOk(st) == st.dir = "present"

FsEntries(st) == {i \in Ids : st.files[i].exists}

FsUnlink(st, id) ==
    IF st.dir = "present" /\ st.files[id].exists
    THEN [ok |-> TRUE, st |-> Store(st.dir, [st.files EXCEPT ![id] = NoFile])]
    ELSE [ok |-> FALSE, st |-> st]

(***************************************************************************)
(* lib/session.ts                                                          *)
(***************************************************************************)
\* A saveSession that opens the file with flag 'a': the text is appended.
SaveSessionAppends(st, s) ==
    LET m == FsMkdir(st)
        o == FsOpenTrunc(m.st, s.id)
        old == IF m.st.files[s.id].access THEN m.st.files[s.id].data ELSE <<>>
    IN  IF ~m.ok THEN [threw |-> TRUE, st |-> st]
        ELSE IF ~o.ok THEN [threw |-> TRUE, st |-> m.st]
        ELSE [threw |-> FALSE, st |-> FsWriteAt0(o.st, s.id, old \o Stringify(s))]

\* saveSession: threw is TRUE when mkdir or writeFile rejects.
SaveSession(st, s) ==
    LET m == FsMkdir(st)
        w == FsWriteFile(m.st, s.id, Stringify(s))
    IN  IF ~m.ok THEN [threw |-> TRUE, st |-> st]
        ELSE IF ~w.ok THEN [threw |-> TRUE, st |-> m.st]
        ELSE [threw |-> FALSE, st |-> w.st]

\* A loadSession without its try/catch: the exception reaches the route.
LoadSessionNoCatch(st, id) ==
    LET r == FsReadFile(st, id)
    IN  IF r.ok /\ Parses(r.data)
        THEN [threw |-> FALSE, found |-> TRUE, session |-> Parse(r.data)]
        ELSE [threw |-> TRUE, found |-> FALSE, session |-> NullSession]

\* loadSession: null (found = FALSE) when readFile or JSON.parse throws.
LoadSession(st, id) ==
    LET r == FsReadFile(st, id)
    IN  IF r.ok /\ Parses(r.data)
        THEN [threw |-> FALSE, found |-> TRUE, session |-> Parse(r.data)]
        ELSE [threw |-> FALSE, found |-> FALSE, session |-> NullSession]

\* The comparator with its operands exchanged: an ascending sort.
CompareAscending(a, b) == a.updatedAt - b.updatedAt

\* The comparator of the sort: new Date(b.updatedAt) - new Date(a.updatedAt).
Compare(a, b) == b.updatedAt - a.updatedAt

\* Array.prototype.sort is stable: x goes behind every element that does not
\* compare greater than it.
RECURSIVE Insert(_, _)
Insert(sorted, x) ==
    IF sorted = <<>> THEN <<x>>
    ELSE IF Compare(sorted[1], x) <= 0
         THEN <<sorted[1]>> \o Insert(Tail(sorted), x)
         ELSE <<x>> \o sorted

RECURSIVE SortSessions(_)
SortSessions(seq) ==
    IF seq = <<>> THEN <<>>
    ELSE Insert(SortSessions(SubSeq(seq, 1, Len(seq) - 1)), seq[Len(seq)])

\* listSessions, the directory read in the order `order`: one file that cannot
\* be read or parsed makes the whole call return [].
ListSessions(st, order) ==
    LET m == FsMkdir(st)
        good == \A k \in 1..Len(order) :
                    /\ FsReadFile(m.st, order[k]).ok
                    /\ Parses(FsReadFile(m.st, order[k]).data)
        read == [k \in 1..Len(order) |-> Parse(FsReadFile(m.st, order[k]).data)]
    IN  IF m.ok /\ FsReaddirOk(m.st) /\ good
        THEN [threw |-> FALSE, st |-> m.st, read |-> read, sessions |-> SortSessions(read)]
        ELSE [threw |-> FALSE, st |-> m.st, read |-> <<>>, sessions |-> <<>>]

\* A deleteSession that removes the directory's entries, not the one file.
DeleteSessionAll(st, id) ==
    LET u == FsUnlink(st, id)
    IN  [threw |-> FALSE, ok |-> u.ok,
         st |-> IF u.ok THEN Store(st.dir, [i \in Ids |-> NoFile]) ELSE st]

\* A deleteSession that reports success whatever unlink did.
DeleteSessionAlwaysTrue(st, id) ==
    LET u == FsUnlink(st, id)
    IN  [threw |-> FALSE, ok |-> TRUE, st |-> u.st]

\* deleteSession: false when unlink rejects.
DeleteSession(st, id) ==
    LET u == FsUnlink(st, id)
    IN  [threw |-> FALSE, ok |-> u.ok, st |-> u.st]

\* The orders readdir may return the entries in.
Orders(S) ==
    {o \in [1..Cardinality(S) -> S] : \A a, b \in 1..Cardinality(S) : a # b => o[a] # o[b]}

(***************************************************************************)
(* The route handlers: an uncaught exception is answered with status 500.  *)
(***************************************************************************)
Response(op, id, status, session, list, read) ==
    [op |-> op, id |-> id, status |-> status, session |-> session,
     sessions |-> list, read |-> read]

\* GET /api/sessions
RouteList(st, order) ==
    LET l == ListSessions(st, order)
    IN  [st |-> l.st,
         resp |-> Response("list", "", IF l.threw THEN 500 ELSE 200,
                           NullSession, l.sessions, l.read)]

\* POST /api/sessions
RoutePost(st, s) ==
    LET p == SaveSession(st, s)
    IN  [st |-> p.st,
         resp |-> Response("put", s.id, IF p.threw THEN 500 ELSE 200, s, <<>>, <<>>)]

\* GET /api/sessions/[id]
RouteGet(st, id) ==
    LET g == LoadSession(st, id)
    IN  [st |-> st,
         resp |-> Response("get", id,
                           IF g.threw THEN 500 ELSE IF g.found THEN 200 ELSE 404,
                           g.session, <<>>, <<>>)]

\* DELETE /api/sessions/[id]
RouteDelete(st, id) ==
    LET d == DeleteSession(st, id)
    IN  [st |-> d.st,
         resp |-> Response("delete", id,
                           IF d.threw THEN 500 ELSE IF d.ok THEN 200 ELSE 404,
                           NullSession, <<>>, <<>>)]

(***************************************************************************)
(* The client's view of a listing (app/page.tsx, loadSessionsList).        *)
(***************************************************************************)
SessionListItems(all) ==
    [k \in 1..Len(all) |->
        [id |-> all[k].id, createdAt |-> all[k].createdAt,
         updatedAt |-> all[k].updatedAt, messageCount |-> Len(all[k].messages)]]

(***************************************************************************)
(* The page before it is mounted (SpecStore and SpecRace run no page).     *)
(***************************************************************************)
DefaultSrc == "https://www.photopea.com"

NoStorage == [current |-> "", created |-> [i \in Ids |-> 0]]

ClientIdle ==
    /\ sessionId = ""
    /\ messages = <<>>
    /\ messageIdRef = 0
    /\ imageUrls = <<>>
    /\ photopeaSrc = DefaultSrc
    /\ sessions = {}
    /\ localStorage = NoStorage
    /\ saveTimeout = FALSE
    /\ net = {}
    /\ now = 1
    /\ thrown = FALSE
    /\ objectUrls = 0
    /\ consoleError = FALSE

(***************************************************************************)
(* SpecStore: requests served one at a time, from any state of the         *)
(* directory.                                                              *)
(***************************************************************************)
Cur == Store(dir, files)

NoResp == Response("none", "", 0, NullSession, <<>>, <<>>)

NoPut == [has |-> FALSE, rec |-> NullSession]

StoreInit ==
    /\ dir \in {"absent", "present", "notdir"}
    /\ files \in [Ids -> {NoFile, File(Malformed), Locked}]
    /\ dir # "present" => files = [i \in Ids |-> NoFile]
    /\ files["s3"] = NoFile
    /\ resp = NoResp
    /\ lastPut = [i \in Ids |-> NoPut]
    /\ writers = <<>>
    /\ completed = <<>>
    /\ ClientIdle

Put(s) ==
    LET r == RoutePost(Cur, s)
    IN  /\ dir' = r.st.dir
        /\ files' = r.st.files
        /\ resp' = r.resp
        /\ lastPut' = [lastPut EXCEPT ![s.id] =
                          IF r.resp.status = 200 THEN [has |-> TRUE, rec |-> s] ELSE NoPut]
        /\ UNCHANGED <<raceVars, clientVars>>

Get(id) ==
    LET r == RouteGet(Cur, id)
    IN  /\ dir' = r.st.dir
        /\ files' = r.st.files
        /\ resp' = r.resp
        /\ UNCHANGED lastPut
        /\ UNCHANGED <<raceVars, clientVars>>

List(order) ==
    LET r == RouteList(Cur, order)
    IN  /\ dir' = r.st.dir
        /\ files' = r.st.files
        /\ resp' = r.resp
        /\ UNCHANGED lastPut
        /\ UNCHANGED <<raceVars, clientVars>>

Delete(id) ==
    LET r == RouteDelete(Cur, id)
    IN  /\ dir' = r.st.dir
        /\ files' = r.st.files
        /\ resp' = r.resp
        /\ lastPut' = IF r.resp.status = 200
                      THEN [lastPut EXCEPT ![id] = NoPut]
                      ELSE lastPut
        /\ UNCHANGED <<raceVars, clientVars>>

StoreNext ==
    \/ \E s \in Records : Put(s)
    \/ \E id \in Ids : Get(id)
    \/ \E order \in Orders(FsEntries(Cur)) : List(order)
    \/ \E id \in Ids : Delete(id)

SpecStore == StoreInit /\ [][StoreNext]_vars

(***************************************************************************)
(* SpecRace: two POST requests in the server at once.  saveSession awaits  *)
(* mkdir, then writeFile, which opens (and truncates) the file, writes the *)
(* text at offset 0 of its own descriptor and closes it: the event loop    *)
(* may run the other request between any two of these.                     *)
(***************************************************************************)
Writers == {"w1", "w2"}

RaceRecords == RecordsOf("s1", 0..MaxLog)

RaceInit ==
    /\ dir \in {"absent", "present", "notdir"}
    /\ files \in [Ids -> {NoFile, File(Malformed), Locked}]
    /\ dir # "present" => files = [i \in Ids |-> NoFile]
    /\ files["s2"] = NoFile /\ files["s3"] = NoFile
    /\ resp = NoResp
    /\ lastPut = [i \in Ids |-> NoPut]
    /\ writers \in [Writers -> {[pc |-> "mkdir", rec |-> r] : r \in RaceRecords}]
    /\ completed = <<>>
    /\ ClientIdle

\* await fs.mkdir(SESSIONS_DIR, { recursive: true })
WMkdir(w) ==
    /\ writers[w].pc = "mkdir"
    /\ LET m == FsMkdir(Cur)
       IN  /\ dir' = m.st.dir
           /\ files' = m.st.files
           /\ writers' = [writers EXCEPT ![w].pc = IF m.ok THEN "open" ELSE "failed"]
    /\ UNCHANGED <<resp, lastPut, completed, clientVars>>

\* writeFile: the file is opened with flag 'w'
WOpen(w) ==
    /\ writers[w].pc = "open"
    /\ LET o == FsOpenTrunc(Cur, writers[w].rec.id)
       IN  /\ dir' = o.st.dir
           /\ files' = o.st.files
           /\ writers' = [writers EXCEPT ![w].pc = IF o.ok THEN "write" ELSE "failed"]
    /\ UNCHANGED <<resp, lastPut, completed, clientVars>>

\* writeFile: the text is written
WWrite(w) ==
    /\ writers[w].pc = "write"
    /\ LET st == FsWriteAt0(Cur, writers[w].rec.id, Stringify(writers[w].rec))
       IN  /\ dir' = st.dir
           /\ files' = st.files
    /\ writers' = [writers EXCEPT ![w].pc = "close"]
    /\ UNCHANGED <<resp, lastPut, completed, clientVars>>

\* writeFile: the file is closed, saveSession resolves, the route answers
WClose(w) ==
    /\ writers[w].pc = "close"
    /\ writers' = [writers EXCEPT ![w].pc = "done"]
    /\ completed' = Append(completed, w)
    /\ UNCHANGED <<dir, files, resp, lastPut, clientVars>>

RaceNext ==
    \E w \in Writers : WMkdir(w) \/ WOpen(w) \/ WWrite(w) \/ WClose(w)

SpecRace == RaceInit /\ [][RaceNext]_vars

(***************************************************************************)
(* The page (app/page.tsx).  A handler runs to its end, React re-renders   *)
(* and the effects run, in one step; a step ends where the handler awaits  *)
(* a response.                                                             *)
(***************************************************************************)
MaxMsgId == 2
MaxNet == 1

Msg(id, type, content, rawString, dataType, preview) ==
    [id |-> id, type |-> type, content |-> content, rawString |-> rawString,
     dataType |-> dataType, preview |-> preview]

\* saveSession: the fields of a message that are sent to the store.
Strip(msgs) ==
    [k \in 1..Len(msgs) |->
        [id |-> msgs[k].id, type |-> msgs[k].type, content |-> msgs[k].content,
         rawString |-> msgs[k].rawString, dataType |-> msgs[k].dataType]]

\* loadSessionData: the stored messages as log entries (no previewUrl).
Restore(ms) ==
    [k \in 1..Len(ms) |->
        Msg(ms[k].id, ms[k].type, ms[k].content, ms[k].rawString, ms[k].dataType, FALSE)]

RECURSIVE MaxId(_)
MaxId(ms) ==
    IF ms = <<>> THEN 0
    ELSE IF ms[1].id > MaxId(Tail(ms)) THEN ms[1].id ELSE MaxId(Tail(ms))

\* A loadSessionData that leaves the counter at 0.
LoadedCounterZero(session) == 0

\* messageIdRef.current = Math.max(0, ...session.messages.map((m) => m.id))
LoadedCounter(session) == MaxId(session.messages)

\* The auto-save effect after a render that changed messages, imageUrls,
\* photopeaSrc or sessionId: the timer is cleared, and armed again unless
\* there is no session id or no message.
Armed(sid, msgs) == sid # "" /\ Len(msgs) # 0

\* Requests and responses in flight.
Req(k, id, rec, then) ==
    [k |-> k, phase |-> "req", id |-> id, rec |-> rec, status |-> 0, ids |-> {},
     then |-> then]

Answer(r, status, rec, ids) ==
    [r EXCEPT !.phase = "resp", !.status = status, !.rec = rec, !.ids = ids]

\* nanoid(16): an id nothing refers to.
ClientIds == {"s1", "s2"}

FreshIds ==
    {i \in ClientIds : /\ i # sessionId
                 /\ ~files[i].exists
                 /\ localStorage.created[i] = 0
                 /\ i \notin sessions
                 /\ \A r \in net : r.id # i /\ r.rec.id # i /\ i \notin r.ids}

ClientPayloads == {StrP("hello")}
ClientOrigins == {EditorOrigin, <<"https://evil.example">>}

\* The session a returning visitor had saved: its log is the editor's "done"
\* on start-up, the first message of that visit.
SavedLog == <<[StoredMsg(2) EXCEPT !.id = 1]>>

SavedBefore == Session("s1", 1, 1, SavedLog, Meta(<<>>, DefaultSrc))

\* The state once the page is mounted (the effect of lines 58-69 has run):
\* a first visit, a visit with a stored session, or one whose session file is gone.
ClientInit ==
    /\ resp = NoResp
    /\ lastPut = [i \in Ids |-> NoPut]
    /\ writers = <<>>
    /\ completed = <<>>
    /\ sessionId = "s1"
    /\ messages = <<>>
    /\ messageIdRef = 0
    /\ imageUrls = <<>>
    /\ photopeaSrc = DefaultSrc
    /\ sessions = {}
    /\ saveTimeout = FALSE
    /\ now = 1
    /\ thrown = FALSE
    /\ objectUrls = 0
    /\ consoleError = FALSE
    /\ \/ /\ dir = "absent"
          /\ files = [i \in Ids |-> NoFile]
          /\ localStorage = [current |-> "s1", created |-> [i \in Ids |-> 0]]
          /\ net = {Req("list", "", NullSession, "none")}
       \/ /\ dir = "present"
          /\ files \in {[i \in Ids |-> IF i = "s1" THEN f ELSE NoFile] :
                            f \in {File(Stringify(SavedBefore)), NoFile}}
          /\ localStorage = [current |-> "s1",
                             created |-> [i \in Ids |-> IF i = "s1" THEN 1 ELSE 0]]
          /\ net = {Req("load", "s1", NullSession, "none"),
                    Req("list", "", NullSession, "none")}

StoreIdle == UNCHANGED <<dir, files, resp, lastPut, writers, completed>>

\* handleMessage
HandleMessage(origin, data) ==
    /\ LET c == ContentOf(data)
       IN  IF ~OriginAccepted(origin)
           THEN UNCHANGED <<messages, messageIdRef, saveTimeout, thrown, objectUrls>>
           ELSE IF c.threw
           THEN /\ thrown' = TRUE
                /\ UNCHANGED <<messages, messageIdRef, saveTimeout, objectUrls>>
           ELSE /\ messages' = Append(messages,
                                      Msg(messageIdRef + 1, "received", c.content,
                                          RawStringOf(data), c.dataType, c.preview))
                /\ messageIdRef' = messageIdRef + 1
                /\ saveTimeout' = Armed(sessionId, messages')
                /\ objectUrls' = IF c.preview THEN objectUrls + 1 ELSE objectUrls
                /\ UNCHANGED thrown
    /\ UNCHANGED <<sessionId, imageUrls, photopeaSrc, sessions, localStorage, net, now,
                   consoleError>>
    /\ StoreIdle

\* sendMessage
SendMessage ==
    /\ messages' = Append(messages,
                          Msg(messageIdRef + 1, "sent", Text("x"), Text("x"), "script", FALSE))
    /\ messageIdRef' = messageIdRef + 1
    /\ saveTimeout' = Armed(sessionId, messages')
    /\ UNCHANGED <<thrown, objectUrls, consoleError>>
    /\ UNCHANGED <<sessionId, imageUrls, photopeaSrc, sessions, localStorage, net, now>>
    /\ StoreIdle

\* clearMessages
ClearMessages ==
    /\ objectUrls' = objectUrls - Cardinality({k \in 1..Len(messages) : messages[k].preview})
    /\ messages' = <<>>
    /\ saveTimeout' = Armed(sessionId, messages')
    /\ UNCHANGED <<thrown, consoleError>>
    /\ UNCHANGED <<sessionId, messageIdRef, imageUrls, photopeaSrc, sessions,
                   localStorage, net, now>>
    /\ StoreIdle

\* createNewSession, with newId the id nanoid returns
NewSession(newId) ==
    /\ sessionId' = newId
    /\ localStorage' = [current |-> newId,
                        created |-> [localStorage.created EXCEPT ![newId] = 0]]
    /\ messages' = <<>>
    /\ messageIdRef' = 0
    /\ imageUrls' = <<>>
    /\ photopeaSrc' = DefaultSrc
    /\ saveTimeout' = Armed(sessionId', messages')

\* The "New" button.
CreateNewSession ==
    /\ \E newId \in FreshIds : NewSession(newId)
    /\ UNCHANGED <<thrown, objectUrls, consoleError>>
    /\ UNCHANGED <<sessions, net, now>>
    /\ StoreIdle

\* switchSession, up to its await
SwitchSession(id) ==
    /\ id \in sessions
    /\ sessionId' = id
    /\ localStorage' = [localStorage EXCEPT !.current = id]
    /\ net' = net \cup {Req("load", id, NullSession, "none")}
    /\ saveTimeout' = IF id # sessionId THEN Armed(id, messages) ELSE saveTimeout
    /\ UNCHANGED <<thrown, objectUrls, consoleError>>
    /\ UNCHANGED <<messages, messageIdRef, imageUrls, photopeaSrc, sessions, now>>
    /\ StoreIdle

\* deleteSessionById, up to its first await; the closure keeps whether id was
\* the current session when the button was clicked.
DeleteSessionById(id) ==
    /\ id \in sessions
    /\ net' = net \cup {Req("delete", id, NullSession,
                            IF id = sessionId THEN "new" ELSE "none")}
    /\ UNCHANGED <<thrown, objectUrls, consoleError>>
    /\ UNCHANGED <<sessionId, messages, messageIdRef, imageUrls, photopeaSrc, sessions,
                   localStorage, saveTimeout, now>>
    /\ StoreIdle

\* The debounce timer fires: saveSession up to its await.  The clock reads t
\* for createdAt and u >= t for updatedAt.
SaveFire(t, u) ==
    /\ saveTimeout
    /\ sessionId # ""
    /\ now <= t /\ t <= u
    /\ now' = u
    /\ saveTimeout' = FALSE
    /\ LET created == IF localStorage.created[sessionId] # 0
                      THEN localStorage.created[sessionId] ELSE t
           session == Session(sessionId, created, u, Strip(messages),
                              Meta(imageUrls, photopeaSrc))
       IN  /\ localStorage' = [localStorage EXCEPT !.created[sessionId] = created]
           /\ net' = net \cup {Req("save", "", session, "none")}
    /\ UNCHANGED <<thrown, objectUrls, consoleError>>
    /\ UNCHANGED <<sessionId, messages, messageIdRef, imageUrls, photopeaSrc, sessions>>
    /\ StoreIdle

\* The server answers a request in flight.
Serve(r) ==
    /\ r \in net /\ r.phase = "req"
    /\ \/ /\ r.k = "load"
          /\ LET g == RouteGet(Cur, r.id)
             IN  /\ net' = (net \ {r}) \cup {Answer(r, g.resp.status, g.resp.session, {})}
                 /\ dir' = g.st.dir /\ files' = g.st.files
       \/ /\ r.k = "save"
          /\ LET w == RoutePost(Cur, r.rec)
             IN  /\ net' = (net \ {r}) \cup {Answer(r, w.resp.status, r.rec, {})}
                 /\ dir' = w.st.dir /\ files' = w.st.files
       \/ /\ r.k = "list"
          /\ \E order \in Orders(FsEntries(Cur)) :
                LET l == RouteList(Cur, order)
                    items == SessionListItems(l.resp.sessions)
                IN  /\ net' = (net \ {r}) \cup
                                 {Answer(r, l.resp.status, NullSession,
                                         {items[k].id : k \in 1..Len(items)})}
                    /\ dir' = l.st.dir /\ files' = l.st.files
       \/ /\ r.k = "delete"
          /\ LET d == RouteDelete(Cur, r.id)
             IN  /\ net' = (net \ {r}) \cup {Answer(r, d.resp.status, NullSession, {})}
                 /\ dir' = d.st.dir /\ files' = d.st.files
    /\ UNCHANGED <<thrown, objectUrls, consoleError>>
    /\ UNCHANGED <<resp, lastPut, writers, completed, sessionId, messages, messageIdRef,
                   imageUrls, photopeaSrc, sessions, localStorage, saveTimeout, now>>

\* loadSessionData after its await
LoadDone(r) ==
    /\ r \in net /\ r.phase = "resp" /\ r.k = "load"
    /\ net' = net \ {r}
    /\ IF r.status = 200
       THEN /\ messages' = Restore(r.rec.messages)
            /\ imageUrls' = IF r.rec.metadata.has THEN r.rec.metadata.imageUrls
                            ELSE imageUrls
            /\ photopeaSrc' = IF r.rec.metadata.has /\ r.rec.metadata.photopeaSrc # ""
                              THEN r.rec.metadata.photopeaSrc ELSE photopeaSrc
            /\ messageIdRef' = LoadedCounter(r.rec)
            /\ saveTimeout' = Armed(sessionId, messages')
       ELSE UNCHANGED <<messages, imageUrls, photopeaSrc, messageIdRef, saveTimeout>>
    /\ UNCHANGED <<thrown, objectUrls, consoleError>>
    /\ UNCHANGED <<sessionId, sessions, localStorage, now>>
    /\ StoreIdle

\* saveSession after its await: the response is not looked at; the list is fetched
SaveDone(r) ==
    /\ r \in net /\ r.phase = "resp" /\ r.k = "save"
    /\ net' = (net \ {r}) \cup {Req("list", "", NullSession, "none")}
    /\ UNCHANGED <<thrown, objectUrls, consoleError>>
    /\ UNCHANGED <<sessionId, messages, messageIdRef, imageUrls, photopeaSrc, sessions,
                   localStorage, saveTimeout, now>>
    /\ StoreIdle

\* deleteSessionById after its first await: the list is fetched
DeleteDone(r) ==
    /\ r \in net /\ r.phase = "resp" /\ r.k = "delete"
    /\ net' = (net \ {r}) \cup {Req("list", "", NullSession, r.then)}
    /\ UNCHANGED <<thrown, objectUrls, consoleError>>
    /\ UNCHANGED <<sessionId, messages, messageIdRef, imageUrls, photopeaSrc, sessions,
                   localStorage, saveTimeout, now>>
    /\ StoreIdle

\* loadSessionsList after its await; deleteSessionById goes on to
\* createNewSession when the session deleted was the current one
ListDone(r) ==
    /\ r \in net /\ r.phase = "resp" /\ r.k = "list"
    /\ net' = net \ {r}
    /\ sessions' = r.ids
    /\ IF r.then = "new"
       THEN \E newId \in FreshIds : NewSession(newId)
       ELSE UNCHANGED <<sessionId, messages, messageIdRef, imageUrls, photopeaSrc,
                        localStorage, saveTimeout>>
    /\ UNCHANGED <<thrown, objectUrls, consoleError>>
    /\ UNCHANGED now
    /\ StoreIdle

\* The steps of the page and the server, with at most inFlight requests
\* outstanding and message ids up to lastId.
ClientNext(inFlight, lastId) ==
    \/ messageIdRef < lastId /\ \E o \in ClientOrigins, p \in ClientPayloads : HandleMessage(o, p)
    \/ messageIdRef < lastId /\ SendMessage
    \/ ClearMessages
    \/ CreateNewSession
    \/ Cardinality(net) < inFlight /\ \E id \in ClientIds : SwitchSession(id)
    \/ Cardinality(net) < inFlight /\ \E id \in ClientIds : DeleteSessionById(id)
    \/ Cardinality(net) < inFlight /\ SaveFire(now, now)
    \/ \E r \in net : Serve(r)
    \/ \E r \in net : LoadDone(r)
    \/ \E r \in net : SaveDone(r)
    \/ \E r \in net : DeleteDone(r)
    \/ \E r \in net : ListDone(r)

Next == ClientNext(MaxNet, MaxMsgId)

Spec == ClientInit /\ [][Next]_vars

NextConcurrent == ClientNext(MaxNet + 1, MaxMsgId - 1)

SpecConcurrent == ClientInit /\ [][NextConcurrent]_vars

(***************************************************************************)
(* SpecClassify: a mounted page with an empty log receives one message     *)
(* event, of any origin and payload; the log is cleared between events.    *)
(***************************************************************************)
ClassifyInit ==
    /\ ClientInit
    /\ dir = "absent"

ClassifyNext ==
    \/ \E o \in Origins, p \in Payloads :
          messages = <<>> /\ messageIdRef < MaxMsgId /\ HandleMessage(o, p)
    \/ messages # <<>> /\ ClearMessages

SpecClassify == ClassifyInit /\ [][ClassifyNext]_vars

(***************************************************************************)
(* SpecPreview: a mounted page receives payloads with and without a        *)
(* preview, and the user clears the log or starts a new session.           *)
(***************************************************************************)
MaxUrls == 2

PreviewPayloads ==
    {BufP("ArrayBuffer", 1), BufP("Uint8Array", 1), BufP("Uint16Array", 1),
     BlobP(1, "image/png"), StrP("hello"), PrimP("number", "42")}

PreviewNext ==
    \/ \E p \in PreviewPayloads :
          messageIdRef < MaxMsgId /\ objectUrls < MaxUrls /\ HandleMessage(EditorOrigin, p)
    \/ ClearMessages
    \/ CreateNewSession

SpecPreview == ClassifyInit /\ [][PreviewNext]_vars

(***************************************************************************)
(* SpecClock: a first visit from a browser that has not seen session s1,   *)
(* which another client has stored; the clock moves between saves.         *)
(***************************************************************************)
ClockInit ==
    /\ resp = NoResp
    /\ lastPut = [i \in Ids |-> NoPut]
    /\ writers = <<>>
    /\ completed = <<>>
    /\ ClientIdle
    /\ dir = "present"
    /\ files = [i \in Ids |-> IF i = "s1" THEN File(Stringify(SavedBefore)) ELSE NoFile]

ClockStart ==
    /\ sessionId = ""
    /\ sessionId' = "s2"
    /\ localStorage' = [localStorage EXCEPT !.current = "s2"]
    /\ net' = {Req("list", "", NullSession, "none")}
    /\ UNCHANGED <<messages, messageIdRef, imageUrls, photopeaSrc, sessions, saveTimeout,
                   now, thrown, objectUrls, consoleError>>
    /\ StoreIdle

ClockNext ==
    \/ ClockStart
    \/ sessionId # "" /\ messageIdRef < MaxMsgId /\ SendMessage
    \/ Cardinality(net) < MaxNet + 1 /\ \E id \in ClientIds : SwitchSession(id)
    \/ Cardinality(net) < MaxNet + 1 /\ \E t \in Times, u \in Times : SaveFire(t, u)
    \/ \E r \in net : Serve(r)
    \/ \E r \in net : LoadDone(r)
    \/ \E r \in net : SaveDone(r)
    \/ \E r \in net : ListDone(r)

SpecClock == ClockInit /\ [][ClockNext]_vars

(***************************************************************************)
(* SpecFailure: the page over a store that cannot be written (.sessions is *)
(* no directory, or the session file has no permissions), and a network    *)
(* that may fail a request.                                                *)
(***************************************************************************)
FailureInit ==
    /\ resp = NoResp
    /\ lastPut = [i \in Ids |-> NoPut]
    /\ writers = <<>>
    /\ completed = <<>>
    /\ sessionId = "s1"
    /\ messages = <<>>
    /\ messageIdRef = 0
    /\ imageUrls = <<>>
    /\ photopeaSrc = DefaultSrc
    /\ sessions = {}
    /\ saveTimeout = FALSE
    /\ now = 1
    /\ thrown = FALSE
    /\ objectUrls = 0
    /\ consoleError = FALSE
    /\ \/ /\ dir = "notdir"
          /\ files = [i \in Ids |-> NoFile]
          /\ localStorage = [current |-> "s1", created |-> [i \in Ids |-> 0]]
          /\ net = {Req("list", "", NullSession, "none")}
       \/ /\ dir = "present"
          /\ files = [i \in Ids |-> IF i = "s1" THEN Locked ELSE NoFile]
          /\ localStorage = [current |-> "s1",
                             created |-> [i \in Ids |-> IF i = "s1" THEN 1 ELSE 0]]
          /\ net = {Req("load", "s1", NullSession, "none"),
                    Req("list", "", NullSession, "none")}

\* fetch rejects (the request or its response is lost): the catch block of
\* the caller logs the error.  loadSessionsList catches its own, so that
\* deleteSessionById goes on to createNewSession.
FetchFails(r) ==
    /\ r \in net
    /\ net' = net \ {r}
    /\ consoleError' = TRUE
    /\ IF r.k = "list" /\ r.then = "new"
       THEN \E newId \in FreshIds : NewSession(newId)
       ELSE UNCHANGED <<sessionId, messages, messageIdRef, imageUrls, photopeaSrc,
                        localStorage, saveTimeout>>
    /\ UNCHANGED <<sessions, now, thrown, objectUrls>>
    /\ StoreIdle

FailureNext ==
    \/ messageIdRef < MaxMsgId /\ SendMessage
    \/ ClearMessages
    \/ Cardinality(net) < MaxNet /\ SaveFire(now, now)
    \/ \E r \in net : Serve(r)
    \/ \E r \in net : LoadDone(r)
    \/ \E r \in net : SaveDone(r)
    \/ \E r \in net : ListDone(r)
    \/ \E r \in net : FetchFails(r)

SpecFailure == FailureInit /\ [][FailureNext]_vars

(***************************************************************************)
(* SpecSwitch: a returning visitor with two stored sessions sends          *)
(* messages and switches between the sessions; a save may be issued while  *)
(* a load is in flight.  The log is never cleared and nothing is deleted.  *)
(***************************************************************************)
OtherSession == Session("s2", 1, 1, Log(1), Meta(<<>>, DefaultSrc))

SwitchInit ==
    /\ resp = NoResp
    /\ lastPut = [i \in Ids |-> NoPut]
    /\ writers = <<>>
    /\ completed = <<>>
    /\ sessionId = "s1"
    /\ messages = <<>>
    /\ messageIdRef = 0
    /\ imageUrls = <<>>
    /\ photopeaSrc = DefaultSrc
    /\ sessions = {}
    /\ saveTimeout = FALSE
    /\ now = 1
    /\ thrown = FALSE
    /\ objectUrls = 0
    /\ consoleError = FALSE
    /\ dir = "present"
    /\ files = [i \in Ids |-> IF i = "s1" THEN File(Stringify(SavedBefore))
                              ELSE IF i = "s2" THEN File(Stringify(OtherSession))
                              ELSE NoFile]
    /\ localStorage = [current |-> "s1",
                       created |-> [i \in Ids |-> IF i \in {"s1", "s2"} THEN 1 ELSE 0]]
    /\ net = {Req("load", "s1", NullSession, "none"),
              Req("list", "", NullSession, "none")}

SwitchNext ==
    \/ messageIdRef < MaxMsgId /\ SendMessage
    \/ Cardinality(net) < MaxNet + 1 /\ \E id \in ClientIds : SwitchSession(id)
    \/ Cardinality(net) < MaxNet + 1 /\ SaveFire(now, now)
    \/ \E r \in net : Serve(r)
    \/ \E r \in net : LoadDone(r)
    \/ \E r \in net : SaveDone(r)
    \/ \E r \in net : ListDone(r)

SpecSwitch == SwitchInit /\ [][SwitchNext]_vars

(***************************************************************************)
(* SpecDelete: the user sends messages and deletes sessions of the list;   *)
(* a session stops being the current one only by being deleted.            *)
(***************************************************************************)
DeleteNext ==
    \/ messageIdRef < MaxMsgId /\ SendMessage
    \/ Cardinality(net) < MaxNet + 1 /\ \E id \in ClientIds : DeleteSessionById(id)
    \/ Cardinality(net) < MaxNet + 1 /\ SaveFire(now, now)
    \/ \E r \in net : Serve(r)
    \/ \E r \in net : LoadDone(r)
    \/ \E r \in net : SaveDone(r)
    \/ \E r \in net : DeleteDone(r)
    \/ \E r \in net : ListDone(r)

SpecDelete == ClientInit /\ [][DeleteNext]_vars

(***************************************************************************)
(* Claims on the store (SpecStore).                                        *)
(***************************************************************************)
SameButUpdatedAt(a, b) ==
    /\ a.id = b.id
    /\ a.createdAt = b.createdAt
    /\ a.messages = b.messages
    /\ a.metadata = b.metadata

\* C1: a put of s followed by a get of s.id, with no put or delete of s.id in
\* between, returns a record equal to s in id, createdAt, messages and
\* metadata, whatever the store held before and whatever was done to other ids.
C1_RoundTrip ==
    \A i \in Ids :
        lastPut[i].has =>
            /\ LoadSession(Cur, i).found
            /\ SameButUpdatedAt(LoadSession(Cur, i).session, lastPut[i].rec)
            /\ (resp.op = "get" /\ resp.id = i) =>
                   (resp.status = 200 /\ SameButUpdatedAt(resp.session, lastPut[i].rec))

\* C1 witness: a get answered after a put of a record with two messages.
C1_Witness ==
    /\ resp.op = "get" /\ resp.status = 200
    /\ lastPut[resp.id].has
    /\ Len(lastPut[resp.id].rec.messages) >= 2
    /\ resp.session.messages = lastPut[resp.id].rec.messages

\* C2: a listing is ordered by updatedAt descending: of two sessions listed,
\* the one with the greater updatedAt comes first.
C2_ListOrdered ==
    resp.op = "list" =>
        \A a, b \in 1..Len(resp.sessions) :
            resp.sessions[a].updatedAt > resp.sessions[b].updatedAt => a < b

\* C2 witness: three sessions listed, read from the directory in another order
\* than the one returned.
C2_Witness ==
    /\ resp.op = "list"
    /\ Len(resp.sessions) = 3
    /\ resp.read # resp.sessions
    /\ resp.sessions[1].updatedAt > resp.sessions[3].updatedAt

\* C3: a listing holds every session present: each id whose get returns a
\* record is listed exactly once, with the number of its messages.
C3_ListComplete ==
    resp.op = "list" =>
        \A i \in Ids :
            LoadSession(Cur, i).found =>
                /\ Cardinality({k \in 1..Len(resp.sessions) :
                                   SessionListItems(resp.sessions)[k].id = i}) = 1
                /\ \A k \in 1..Len(resp.sessions) :
                       SessionListItems(resp.sessions)[k].id = i =>
                           SessionListItems(resp.sessions)[k].messageCount
                               = Len(LoadSession(Cur, i).session.messages)

\* Whether the file of id is there, readable and a JSON document.
Intact(st, id) == FsReadFile(st, id).ok /\ Parses(FsReadFile(st, id).data)

\* C4: list and get never end in an error: a listing is answered with a
\* collection, empty when the directory is absent or no directory, and a get
\* with a record or, when the file is absent, unreadable or malformed, with
\* status 404.
C4_ReadsNeverFail ==
    /\ resp.op = "list" =>
           /\ resp.status = 200
           /\ dir # "present" => resp.sessions = <<>>
    /\ resp.op = "get" =>
           /\ resp.status \in {200, 404}
           /\ ~Intact(Cur, resp.id) => resp.status = 404
           /\ resp.status = 200 => resp.session = Parse(files[resp.id].data)

\* C4 witness: a get of a file whose content is malformed, answered 404.
C4_Witness ==
    /\ resp.op = "get" /\ resp.status = 404
    /\ dir = "present"
    /\ files[resp.id] = File(Malformed)

\* C5: a delete of an id that has a file is answered with success and a get
\* of that id then finds nothing; a delete of an id without a file is
\* answered 404, not with an error, and leaves the store as it was.
C5_Delete ==
    [][resp'.op = "delete" =>
          /\ (dir = "present" /\ files[resp'.id].exists) =>
                 /\ resp'.status = 200
                 /\ ~LoadSession(Store(dir', files'), resp'.id).found
                 /\ RouteGet(Store(dir', files'), resp'.id).resp.status = 404
          /\ ~(dir = "present" /\ files[resp'.id].exists) =>
                 /\ resp'.status = 404
                 /\ dir' = dir /\ files' = files]_vars

\* C5 witness: a delete answered with success, the file gone.
C5_Witness ==
    /\ resp.op = "delete" /\ resp.status = 200
    /\ ~files[resp.id].exists
    /\ \E j \in Ids : LoadSession(Cur, j).found

\* C7: a put or a delete changes the stored record of its own id only: a get
\* of any other id returns what it returned before; list and get change no
\* file.
C7_Independent ==
    [][/\ resp'.op \in {"put", "delete"} =>
              \A j \in Ids \ {resp'.id} :
                  /\ files'[j] = files[j]
                  /\ LoadSession(Store(dir', files'), j) = LoadSession(Cur, j)
       /\ resp'.op \in {"list", "get"} => files' = files]_vars

\* C7 witness: a delete has succeeded while another id holds a record.
C7_Witness ==
    /\ resp.op = "delete" /\ resp.status = 200
    /\ \E j \in Ids \ {resp.id} : LoadSession(Cur, j).found /\ lastPut[j].has

(***************************************************************************)
(* Claims on concurrent writers (SpecRace).                                *)
(***************************************************************************)
\* C6: a put replaces the stored record in full and creates the directory
\* when it is absent; when two writers put records under one id, in any
\* interleaving a get afterwards returns the record of the put that was
\* completed last.
C6_LastWriterWins ==
    (\A w \in Writers : writers[w].pc = "done") =>
        /\ dir = "present"
        /\ LoadSession(Cur, "s1").found
        /\ LoadSession(Cur, "s1").session = writers[completed[Len(completed)]].rec


(***************************************************************************)
(* Claims on the page (Spec, SpecClassify).                                *)
(***************************************************************************)
\* C8: whatever the client has done (send, receive, clear, new session,
\* switch and load, delete), the ids of the message log are strictly
\* increasing in log order, hence pairwise distinct; a message appended
\* after a load has an id above every id of the loaded log.
C8_IdsIncreasing ==
    \A i \in 1..Len(messages), j \in 1..Len(messages) :
        i < j => messages[i].id < messages[j].id

\* The stored log has been loaded (its "done" entry is one the page does
\* not receive in this specification) and a message appended after it.
C8_Witness ==
    /\ Len(messages) = 2
    /\ messages[1] = Restore(SavedLog)[1]
    /\ messages[2].id = 2

\* C9: a message event whose origin is not the editor's origin, an origin
\* that only contains "photopea.com" included, leaves the message log, the
\* id counter and the rest of the client state unchanged.
C9_OnlyEditorOrigin ==
    [][\A o \in Origins, p \in Payloads :
          (o # EditorOrigin /\ HandleMessage(o, p)) => UNCHANGED clientVars]_vars

\* C10: a message event of an accepted origin, whatever its payload, ends
\* without an exception and appends one entry; the payload "done" gets
\* dataType "done"; any other string t gets dataType "string" with content
\* and rawString both t.
C10_ClassificationTotal ==
    [][\A o \in Origins, p \in Payloads :
          (OriginAccepted(o) /\ HandleMessage(o, p)) =>
              /\ ~thrown'
              /\ Len(messages') = Len(messages) + 1
              /\ LET m == messages'[Len(messages')]
                 IN  /\ p = StrP("done") => m.dataType = "done"
                     /\ (p.k = "string" /\ p.text # "done") =>
                            /\ m.dataType = "string"
                            /\ m.content = Text(p.text)
                            /\ m.rawString = Text(p.text)]_vars

\* The hex groups g are the two-digit forms of the first min(n, limit) of the
\* n bytes elems, and dots says whether n exceeds limit.
PreviewOf(g, dots, elems, limit) ==
    /\ Len(g) = Min(Len(elems), limit)
    /\ \A k \in 1..Len(g) : g[k] = Hex2(elems[k]) /\ Len(g[k]) = 2
    /\ dots <=> Len(elems) > limit

\* C11: an ArrayBuffer or Uint8Array of n bytes from an accepted origin is
\* logged with a content whose hex preview is the first min(n, 20) bytes,
\* with an ellipsis iff n > 20, a rawString whose preview is the first
\* min(n, 50) bytes, with an ellipsis iff n > 50, and the constructor's name
\* as dataType; for n = 0 both previews are empty, with no ellipsis.
C11_HexPreviews ==
    [][\A o \in Origins, p \in Payloads :
          (OriginAccepted(o) /\ p.ctor \in {"ArrayBuffer", "Uint8Array"}
                             /\ HandleMessage(o, p)) =>
              /\ Len(messages') = Len(messages) + 1
              /\ LET m == messages'[Len(messages')]
                 IN  /\ m.dataType = p.ctor
                     /\ m.content.n = Len(p.elems)
                     /\ PreviewOf(m.content.hex, m.content.dots, p.elems, 20)
                     /\ PreviewOf(m.rawString.hex, m.rawString.dots, p.elems, 50)
                     /\ Len(p.elems) = 0 =>
                            /\ m.content.hex = <<>> /\ ~m.content.dots
                            /\ m.rawString.hex = <<>> /\ ~m.rawString.dots]_vars

\* C11 witness: a buffer of 51 bytes is in the log, both previews cut.
C11_Witness ==
    \E k \in 1..Len(messages) :
        /\ messages[k].dataType \in {"ArrayBuffer", "Uint8Array"}
        /\ messages[k].content.n = 51
        /\ Len(messages[k].content.hex) = 20 /\ messages[k].content.dots
        /\ Len(messages[k].rawString.hex) = 50 /\ messages[k].rawString.dots

(***************************************************************************)
(* Claims on the auto-save (Spec).                                         *)
(***************************************************************************)
\* What the auto-save effect depends on.
saveDeps == <<messages, imageUrls, photopeaSrc, sessionId>>

\* C12: at most one deferred save is pending; a change of messages, image
\* URLs, editor source or session id while a save is pending cancels it and
\* arms a new one; the write that is issued when the timer fires is the only
\* one of the burst and carries the state after the last change.
C12_Debounce ==
    [][/\ (saveTimeout /\ saveDeps' # saveDeps) => saveTimeout'
       /\ \A r \in net' \ net :
              (r.k = "save" /\ r.phase = "req") =>
                  /\ saveTimeout /\ ~saveTimeout'
                  /\ Cardinality({q \in net' \ net : q.k = "save"}) = 1
                  /\ r.rec.id = sessionId
                  /\ r.rec.messages = Strip(messages)
                  /\ r.rec.metadata = Meta(imageUrls, photopeaSrc)]_vars

\* Nothing is pending: no timer is armed and no request is in flight, so
\* that nothing is saved until the user changes something more.
Quiescent == ~saveTimeout /\ net = {}

\* The stored record of the current session holds the state in memory.
Synced ==
    /\ LoadSession(Cur, sessionId).found
    /\ LoadSession(Cur, sessionId).session.messages = Strip(messages)
    /\ LoadSession(Cur, sessionId).session.metadata = Meta(imageUrls, photopeaSrc)

\* C13: after a change that no further change follows, a save carrying the
\* latest state is issued and the stored record comes to equal the state in
\* memory: once nothing is pending any more, a session that has a stored
\* record or a non-empty log is stored as it is in memory.
C13_AutoSaved ==
    (Quiescent /\ (messages # <<>> \/ LoadSession(Cur, sessionId).found)) => Synced

(***************************************************************************)
(* Claims on preview handles (SpecPreview).                                *)
(***************************************************************************)
\* The entries of the log that own an object URL.
Previewed == {k \in 1..Len(messages) : messages[k].preview}

\* C14: an object URL is created only for an ArrayBuffer, typed array or
\* Blob payload, and is revoked when its entry leaves the log: in every
\* state the URLs not revoked are those of the entries still in the log.
C14_NoLeak ==
    /\ objectUrls = Cardinality(Previewed)
    /\ \A k \in Previewed :
           messages[k].dataType \in {"ArrayBuffer", "Uint8Array", "Uint16Array", "Blob"}

(***************************************************************************)
(* Claims on timestamps (SpecClock).                                       *)
(***************************************************************************)
\* C15: whoever saves a session, the stored createdAt is the one of its
\* first save and never changes, a save stores an updatedAt not earlier
\* than the one stored before, and every stored record has
\* updatedAt >= createdAt.
C15_Timestamps ==
    [][\A i \in Ids :
          LET old == LoadSession(Cur, i)
              new == LoadSession(Store(dir', files'), i)
          IN  new.found =>
                  /\ new.session.updatedAt >= new.session.createdAt
                  /\ old.found =>
                         /\ new.session.createdAt = old.session.createdAt
                         /\ new.session.updatedAt >= old.session.updatedAt]_vars

(***************************************************************************)
(* Claims on failed saves (SpecFailure).                                   *)
(***************************************************************************)
\* C16: when the write of a save fails, the request is not answered as a
\* success and the stored files stay as they were; the client, on that
\* answer, logs a failed save and keeps its session id, log, id counter,
\* image URLs and editor source.
C16_FailureSurfaced ==
    [][\A r \in net :
          /\ (r.k = "save" /\ r.phase = "req" /\ SaveSession(Cur, r.rec).threw /\ Serve(r)) =>
                 /\ \E a \in net' \ net : a.k = "save" /\ a.phase = "resp" /\ a.status # 200
                 /\ files' = files
          /\ (r.k = "save" /\ r.phase = "resp" /\ r.status # 200 /\ SaveDone(r)) =>
                 /\ consoleError'
                 /\ UNCHANGED <<sessionId, messages, messageIdRef, imageUrls,
                                photopeaSrc>>]_vars

(***************************************************************************)
(* Claims on loads and switches (SpecSwitch).                              *)
(***************************************************************************)
IsPrefix(a, b) == Len(a) <= Len(b) /\ SubSeq(b, 1, Len(a)) = a

\* C17: with no clear and no delete, a save that replaces the stored record
\* of a session stores a log that the log stored before is a prefix of;
\* so also for a save issued while a load of the session is in flight.
C17_AppendOnly ==
    [][\A i \in Ids :
          LET old == LoadSession(Cur, i)
              new == LoadSession(Store(dir', files'), i)
          IN  (old.found /\ new.found) =>
                  IsPrefix(old.session.messages, new.session.messages)]_vars

\* C18: a save issued under id S carries the log loaded from S's record and
\* what was appended while S was current, however switches and load
\* responses interleave.  Here the user only sends scripts, so that the
\* "done" entry of the log stored for s1 is in no save issued under
\* another id.
C18_OwnLog ==
    \A r \in net :
        (r.k = "save" /\ r.rec.id # SavedBefore.id) =>
            \A k \in 1..Len(r.rec.messages) : r.rec.messages[k] # SavedLog[1]

(***************************************************************************)
(* Claims on deletion (SpecDelete).                                        *)
(***************************************************************************)
\* C19: once the current session S is deleted and the delete has completed,
\* the client is in a fresh session, with an empty log and the id counter
\* at 0, and no save of the client brings a stored record of S back: a
\* session that is not the current one any more has no stored record.
C19_DeletionFinal ==
    [][/\ sessionId' # sessionId => (messages' = <<>> /\ messageIdRef' = 0)
       /\ \A S \in ClientIds \ {sessionId'} :
              ~LoadSession(Store(dir', files'), S).found]_vars

====
